---------------------------- MODULE Spec2Model ----------------------------
(***************************************************************************)
(* Verification model of src/canvas.js: the bouncing-balls simulation.     *)
(*                                                                         *)
(* Four specifications share this module.                                  *)
(*   Spec       the event loop: kickoff, spawn timer, mouse handlers and   *)
(*              the animation frame (step then render) over the balls      *)
(*              array.  A ball is represented by its spawn tag; what       *)
(*              step() does to the fields of a ball is the subject of the  *)
(*              three kinematic specifications below.  resize() does not   *)
(*              touch the array and is left to those as well.              *)
(*   SpecWalls  collideWalls(b) applied to one ball in an arena.           *)
(*   SpecPair   collideBalls(a, b) applied to two balls.                   *)
(*   SpecRest   step(dt) applied to a world of one ball resting on the     *)
(*              floor.                                                     *)
(*                                                                         *)
(* JavaScript numbers are modelled as exact rationals <<n, d>> in lowest   *)
(* terms with d > 0, so a property confirmed here is a property of the     *)
(* arithmetic the code writes down, free of rounding.                      *)
(***************************************************************************)
EXTENDS Integers, Sequences, FiniteSets, TLC

VARIABLES
    pc,            \* where the single JS thread is: "load" (the script), "idle"
                   \* (no handler running), "step", "render" (inside animate)
    balls,         \* the balls array (line 86), each ball named by its spawn tag
    nextTag,       \* spawn order: the tag the next `new Ball` gets
    dragStart,     \* line 208: TRUE when a mousedown has set dragStart
    seenByStep,    \* the balls array as step() iterated it in the current frame
    seenByRender,  \* the balls array as render() iterated it in the last frame
    opLog,         \* the calls step() made in the current frame, in order
    state,         \* line 12: the arena, [w, h]
    before,        \* kinematic specs: the bodies before the call under study
    after,         \* kinematic specs: the bodies after it
    phase,         \* kinematic specs: "in" before the call, "out" after;
                   \* SpecRest: "rest", then "once", "twice" after each frame
    dtLast         \* SpecRest: the dt passed to the last step() call

vars == <<pc, balls, nextTag, dragStart, seenByStep, seenByRender,
          opLog, state, before, after, phase, dtLast>>

schedVars == <<pc, balls, nextTag, dragStart, seenByStep, seenByRender, opLog>>
kinVars == <<state, before, after, phase, dtLast>>

-----------------------------------------------------------------------------
(* Numbers: exact rationals.                                               *)

gcd[a \in Nat, b \in Nat] == IF b = 0 THEN a ELSE gcd[b, a % b]
GCD(a, b) == gcd[a, b]

AbsInt(n) == IF n < 0 THEN -n ELSE n

Norm(n, d) ==
    LET g == GCD(AbsInt(n), d)
    IN  <<n \div g, d \div g>>

Num(n) == <<n, 1>>
Zero == <<0, 1>>
One == <<1, 1>>

Neg(p) == <<-p[1], p[2]>>

Add(p, q) ==
    LET g == GCD(p[2], q[2])
        l == (p[2] \div g) * q[2]
    IN  Norm(p[1] * (l \div p[2]) + q[1] * (l \div q[2]), l)

Sub(p, q) == Add(p, Neg(q))

Mul(p, q) ==
    LET g1 == GCD(AbsInt(p[1]), q[2])
        g2 == GCD(AbsInt(q[1]), p[2])
    IN  <<(p[1] \div g1) * (q[1] \div g2), (p[2] \div g2) * (q[2] \div g1)>>

\* q is never zero where the code divides: masses are positive and dist is
\* tested before it divides (line 111).
Div(p, q) ==
    Mul(p, IF q[1] > 0 THEN <<q[2], q[1]>> ELSE <<-q[2], -q[1]>>)

\* p < q: by the integer parts, and by the fractional parts when those agree
\* (keeps the intermediate products small).
Floor(p) == p[1] \div p[2]
Frac(p) == <<p[1] - Floor(p) * p[2], p[2]>>
Lt(p, q) ==
    IF Floor(p) # Floor(q) THEN Floor(p) < Floor(q)
    ELSE Sub(Frac(p), Frac(q))[1] < 0
Gt(p, q) == Lt(q, p)
Le(p, q) == ~Lt(q, p)
Ge(p, q) == ~Lt(p, q)

Abs(p) == IF p[1] < 0 THEN Neg(p) ELSE p
Min(p, q) == IF Lt(q, p) THEN q ELSE p
Max(p, q) == IF Lt(p, q) THEN q ELSE p

\* Math.sqrt on the square of a rational; the kinematic inputs are chosen so
\* that every center distance is one (IRoot is undefined on a non-square).
IRoot(n) == CHOOSE s \in 0..n : s * s = n
Sqrt(p) == <<IRoot(p[1]), IRoot(p[2])>>

\* Math.exp(-x) for the small x >= 0 of the drag factor, to first order.
ExpNeg(x) == Sub(One, x)

-----------------------------------------------------------------------------
(* Physics parameters, lines 24-30.                                        *)

G == 1600
RESTITUTION == <<21, 25>>
FRICTION == <<1, 125>>
AIR_DRAG == <<1, 1250>>
MAX_DT == <<1, 60>>
SUBSTEPS == 1
\* Math.PI as a rational.  The code uses masses only in ratios (b.m / totalMass,
\* j / a.m with j proportional to a mass), so its value reaches no result.
PI == <<22, 7>>

-----------------------------------------------------------------------------
(* class Ball, lines 65-84.                                                *)

Ball(x, y, r) ==
    [px |-> x, py |-> y, vx |-> Zero, vy |-> Zero, r |-> r,
     m |-> Mul(PI, Mul(r, r))]

\* Variant of integrate with gravity added to the wrong component.
integrateGravityOnX(b, dt) ==
    LET vx1  == Add(b.vx, Mul(Num(G), dt))
        drag == ExpNeg(Mul(Mul(AIR_DRAG, dt), Num(1000)))
        vx2  == Mul(vx1, drag)
        vy2  == Mul(b.vy, drag)
    IN  [b EXCEPT !.vx = vx2, !.vy = vy2,
                  !.px = Add(b.px, Mul(vx2, dt)),
                  !.py = Add(b.py, Mul(vy2, dt))]

integrate(b, dt) ==
    LET vy1  == Add(b.vy, Mul(Num(G), dt))
        drag == ExpNeg(Mul(Mul(AIR_DRAG, dt), Num(1000)))
        vx2  == Mul(b.vx, drag)
        vy2  == Mul(vy1, drag)
    IN  [b EXCEPT !.vx = vx2, !.vy = vy2,
                  !.px = Add(b.px, Mul(vx2, dt)),
                  !.py = Add(b.py, Mul(vy2, dt))]

-----------------------------------------------------------------------------
(* Collision: ball against the walls, lines 89-102.  Reads the arena from  *)
(* the global `state`.                                                     *)

\* Variant of bounce that divides by the restitution.
bounceGain(v) == Div(Neg(v), RESTITUTION)

\* lines 90-95: -v * RESTITUTION, the reflected normal velocity
bounce(v) == Mul(Neg(v), RESTITUTION)

\* Variant of rightWallX that forgets the radius.
rightWallXNoRadius(b) == Num(state.w)

\* line 91: the x of a ball tangent to the right wall
rightWallX(b) == Sub(Num(state.w), b.r)

collideWalls(b) ==
    LET w  == Num(state.w)
        h  == Num(state.h)
        b1 == IF Lt(Sub(b.px, b.r), Zero)
              THEN [b EXCEPT !.px = b.r, !.vx = bounce(b.vx)]
              ELSE b
        b2 == IF Gt(Add(b1.px, b1.r), w)
              THEN [b1 EXCEPT !.px = rightWallX(b1), !.vx = bounce(b1.vx)]
              ELSE b1
        b3 == IF Lt(Sub(b2.py, b2.r), Zero)
              THEN [b2 EXCEPT !.py = b2.r, !.vy = bounce(b2.vy)]
              ELSE b2
    IN  IF Gt(Add(b3.py, b3.r), h)
        THEN LET c  == [b3 EXCEPT !.py = Sub(h, b3.r), !.vy = bounce(b3.vy)]
                 onGround == /\ Lt(Abs(Sub(Add(c.py, c.r), h)), <<1, 2>>)
                             /\ Lt(Abs(c.vy), Num(50))
                 vx1 == Mul(c.vx, Sub(One, FRICTION))
             IN  IF onGround
                 THEN [c EXCEPT !.vx = IF Lt(Abs(vx1), Num(2)) THEN Zero ELSE vx1]
                 ELSE c
        ELSE b3

-----------------------------------------------------------------------------
(* Collision: ball against ball, lines 105-137.  Returns the pair <<a, b>> *)
(* as the call leaves the two objects.                                     *)

\* Variant of noContact without the test for coincident centers.
noContactNoZeroTest(dist2, radii) == Gt(dist2, Mul(radii, radii))

\* line 108: the early return
noContact(dist2, radii) ==
    dist2 = Zero \/ Gt(dist2, Mul(radii, radii))

\* Variant of separating that never returns early.
separatingNever(velAlongNormal) == FALSE

\* line 122: the early return before the impulses
separating(velAlongNormal) == Gt(velAlongNormal, Zero)

\* Variant of normalImpulse with the sign of j flipped.
normalImpulseSignFlipped(velAlongNormal, ma, mb) ==
    Div(Mul(Add(One, RESTITUTION), velAlongNormal),
        Add(Div(One, ma), Div(One, mb)))

\* lines 124-125: the normal impulse j
normalImpulse(velAlongNormal, ma, mb) ==
    Div(Mul(Neg(Add(One, RESTITUTION)), velAlongNormal),
        Add(Div(One, ma), Div(One, mb)))

\* lines 130-136: the tangential impulse, clamped to mu * |j|
frictionImpulse(vTan, j, ma, mb) ==
    LET jt == Div(Neg(vTan), Add(Div(One, ma), Div(One, mb)))
        mu == <<1, 50>>
    IN  Min(Mul(mu, Abs(j)), Max(Mul(Neg(mu), Abs(j)), jt))

collideBalls(a, b) ==
    LET dx    == Sub(b.px, a.px)
        dy    == Sub(b.py, a.py)
        dist2 == Add(Mul(dx, dx), Mul(dy, dy))
        radii == Add(a.r, b.r)
    IN  IF noContact(dist2, radii) THEN <<a, b>>
        ELSE
        LET dist == Sqrt(dist2)
            nx   == IF dist # Zero THEN Div(dx, dist) ELSE One
            ny   == IF dist # Zero THEN Div(dy, dist) ELSE Zero
            penetration == Sub(radii, dist)
            totalMass   == Add(a.m, b.m)
            corrA == Mul(penetration, Div(b.m, totalMass))
            corrB == Mul(penetration, Div(a.m, totalMass))
            a1 == [a EXCEPT !.px = Sub(a.px, Mul(nx, corrA)),
                            !.py = Sub(a.py, Mul(ny, corrA))]
            b1 == [b EXCEPT !.px = Add(b.px, Mul(nx, corrB)),
                            !.py = Add(b.py, Mul(ny, corrB))]
            rvx == Sub(b.vx, a.vx)
            rvy == Sub(b.vy, a.vy)
            velAlongNormal == Add(Mul(rvx, nx), Mul(rvy, ny))
        IN  IF separating(velAlongNormal) THEN <<a1, b1>>
            ELSE
            LET j    == normalImpulse(velAlongNormal, a.m, b.m)
                impX == Mul(j, nx)
                impY == Mul(j, ny)
                a2 == [a1 EXCEPT !.vx = Sub(a1.vx, Div(impX, a.m)),
                                 !.vy = Sub(a1.vy, Div(impY, a.m))]
                b2 == [b1 EXCEPT !.vx = Add(b1.vx, Div(impX, b.m)),
                                 !.vy = Add(b1.vy, Div(impY, b.m))]
                tx == Neg(ny)
                ty == nx
                vTan == Add(Mul(rvx, tx), Mul(rvy, ty))
                jtClamped == frictionImpulse(vTan, j, a.m, b.m)
            IN  << [a2 EXCEPT !.vx = Sub(a2.vx, Div(Mul(jtClamped, tx), a.m)),
                              !.vy = Sub(a2.vy, Div(Mul(jtClamped, ty), a.m))],
                   [b2 EXCEPT !.vx = Add(b2.vx, Div(Mul(jtClamped, tx), b.m)),
                              !.vy = Add(b2.vy, Div(Mul(jtClamped, ty), b.m))] >>

-----------------------------------------------------------------------------
(* World step, lines 140-151.  stepOps(n) is the sequence of calls the     *)
(* loops of step() make for a population of n balls (indices 0..n-1, as in *)
(* the source); step(bs, dt) applies them to the bodies bs.                *)

\* Variant of innerStart that starts the inner loop at i.
innerStartSelf(i) == i

\* line 146: where the inner loop starts
innerStart(i) == i + 1

RECURSIVE pairOps(_, _, _, _)
pairOps(s, i, j, n) ==
    IF i >= n THEN << >>
    ELSE IF j >= n THEN pairOps(s, i + 1, innerStart(i + 1), n)
    ELSE <<[kind |-> "collideBalls", s |-> s, i |-> i, j |-> j]>>
         \o pairOps(s, i, j + 1, n)

substepOps(s, n) ==
    [k \in 1..n |-> [kind |-> "integrate", s |-> s, i |-> k - 1, j |-> k - 1]]
    \o [k \in 1..n |-> [kind |-> "collideWalls", s |-> s, i |-> k - 1, j |-> k - 1]]
    \o pairOps(s, 0, innerStart(0), n)

RECURSIVE stepOps(_, _)
stepOps(s, n) ==
    IF s >= SUBSTEPS THEN << >> ELSE substepOps(s, n) \o stepOps(s + 1, n)

applyOp(bs, op, subDt) ==
    IF op.kind = "integrate"
    THEN [bs EXCEPT ![op.i + 1] = integrate(@, subDt)]
    ELSE IF op.kind = "collideWalls"
    THEN [bs EXCEPT ![op.i + 1] = collideWalls(@)]
    ELSE LET r == collideBalls(bs[op.i + 1], bs[op.j + 1])
         IN  [bs EXCEPT ![op.i + 1] = r[1], ![op.j + 1] = r[2]]

\* The bodies after each call are bound as a value (nb) before the next call
\* reads them, so that TLC computes each call once.
RECURSIVE applyOps(_, _, _)
applyOps(bs, ops, subDt) ==
    IF ops = << >> THEN bs
    ELSE CHOOSE r \in { applyOps(nb, Tail(ops), subDt) :
                           nb \in {applyOp(bs, Head(ops), subDt)} } : TRUE

step(bs, dt) ==
    LET subDt == Div(Min(MAX_DT, dt), Num(SUBSTEPS))
    IN  applyOps(bs, stepOps(0, Len(bs)), subDt)

-----------------------------------------------------------------------------
(* Population, lines 164-187 and 219-241.                                  *)

INITIAL_BALLS == 2
MAX_BALLS == 4

\* Bound of the model: spawns stop after this many balls have been created.
MaxTag == 7

\* Variant of spawnRandomBall whose cap test is off by one.
spawnRandomBallOffByOne(bs, b) ==
    LET pushed == Append(bs, b)
    IN  IF Len(pushed) > MAX_BALLS + 1 THEN Tail(pushed) ELSE pushed

\* lines 170-179, on the array: push, then shift when over the cap
spawnRandomBall(bs, b) ==
    LET pushed == Append(bs, b)
    IN  IF Len(pushed) > MAX_BALLS THEN Tail(pushed) ELSE pushed

\* Variant of mouseupSpawn that removes the newest ball (pop for shift).
mouseupSpawnPop(bs, b) ==
    LET pushed == Append(bs, b)
    IN  IF Len(pushed) > MAX_BALLS THEN SubSeq(pushed, 1, Len(pushed) - 1)
        ELSE pushed

\* lines 219-239, on the array: push, then shift when over the cap
mouseupSpawn(bs, b) ==
    LET pushed == Append(bs, b)
    IN  IF Len(pushed) > MAX_BALLS THEN Tail(pushed) ELSE pushed

\* line 241
dblclickClear(bs) == << >>

\* line 201: for (i = 0; i < INITIAL_BALLS; i++) spawnRandomBall()
RECURSIVE initialBatch(_, _, _)
initialBatch(bs, tag, i) ==
    IF i >= INITIAL_BALLS THEN bs
    ELSE initialBatch(spawnRandomBall(bs, tag), tag + 1, i + 1)

kinIdle ==
    /\ state = [w |-> 0, h |-> 0]
    /\ before = << >>
    /\ after = << >>
    /\ phase = "off"
    /\ dtLast = Zero

\* The page while the script is loading: balls = [] (line 86), nothing scheduled.
Init ==
    /\ pc = "load"
    /\ balls = << >>
    /\ nextTag = 1
    /\ dragStart = FALSE
    /\ seenByStep = << >>
    /\ seenByRender = << >>
    /\ opLog = << >>
    /\ kinIdle

\* lines 199-244: the initial batch, the first timer, the first animation
\* frame request and the listeners, in one run of the script.
Kickoff ==
    /\ pc = "load"
    /\ balls' = initialBatch(balls, nextTag, 0)
    /\ nextTag' = nextTag + INITIAL_BALLS
    /\ dragStart' = FALSE
    /\ pc' = "idle"
    /\ UNCHANGED <<seenByStep, seenByRender, opLog, kinVars>>

\* Variant of SpawnTimerFires that may run while animate is running (a timer
\* on another thread).
SpawnTimerFiresPreempt ==
    /\ pc \in {"idle", "step", "render"}
    /\ nextTag <= MaxTag
    /\ balls' = spawnRandomBall(balls, nextTag)
    /\ nextTag' = nextTag + 1
    /\ UNCHANGED <<pc, dragStart, seenByStep, seenByRender, opLog, kinVars>>

\* lines 181-187: the timer callback spawns and schedules the next timer.  A
\* callback is run by the event loop only when no other handler is running.
SpawnTimerFires ==
    /\ pc = "idle"
    /\ nextTag <= MaxTag
    /\ balls' = spawnRandomBall(balls, nextTag)
    /\ nextTag' = nextTag + 1
    /\ UNCHANGED <<pc, dragStart, seenByStep, seenByRender, opLog, kinVars>>

\* lines 215-217
MouseDown ==
    /\ pc = "idle"
    /\ dragStart' = TRUE
    /\ UNCHANGED <<pc, balls, nextTag, seenByStep, seenByRender, opLog, kinVars>>

\* lines 219-239
MouseUp ==
    /\ pc = "idle"
    /\ nextTag <= MaxTag
    /\ balls' = mouseupSpawn(balls, nextTag)
    /\ nextTag' = nextTag + 1
    /\ dragStart' = FALSE
    /\ UNCHANGED <<pc, seenByStep, seenByRender, opLog, kinVars>>

\* line 241
DblClick ==
    /\ pc = "idle"
    /\ balls' = dblclickClear(balls)
    /\ UNCHANGED <<pc, nextTag, dragStart, seenByStep, seenByRender, opLog, kinVars>>

\* lines 191-193: the frame callback is entered
AnimateEnter ==
    /\ pc = "idle"
    /\ pc' = "step"
    /\ UNCHANGED <<balls, nextTag, dragStart, seenByStep, seenByRender, opLog,
                   kinVars>>

\* line 194: step(dt) runs over the array
AnimateStep ==
    /\ pc = "step"
    /\ seenByStep' = balls
    /\ opLog' = stepOps(0, Len(balls))
    /\ pc' = "render"
    /\ UNCHANGED <<balls, nextTag, dragStart, seenByRender, kinVars>>

\* lines 195-196: render() draws the array, the next frame is requested
AnimateRender ==
    /\ pc = "render"
    /\ seenByRender' = balls
    /\ pc' = "idle"
    /\ UNCHANGED <<balls, nextTag, dragStart, seenByStep, opLog, kinVars>>

Next ==
    \/ Kickoff
    \/ SpawnTimerFires
    \/ MouseDown
    \/ MouseUp
    \/ DblClick
    \/ AnimateEnter
    \/ AnimateStep
    \/ AnimateRender

Spec == Init /\ [][Next]_vars

-----------------------------------------------------------------------------
(* Kinematic specifications: one call applied to inputs drawn from small   *)
(* sets of values the page can produce.                                    *)

schedOff ==
    /\ pc = "off"
    /\ balls = << >>
    /\ nextTag = 1
    /\ dragStart = FALSE
    /\ seenByStep = << >>
    /\ seenByRender = << >>
    /\ opLog = << >>

\* line 171 and line 223: Math.round(rand(72, 94))
Radii == {72, 90}

\* canvas.clientWidth x canvas.clientHeight (lines 14-15); 150 is the height
\* of a canvas element that has not been given one.
Arenas == [w : {160, 800}, h : {150, 600}]

body(px, py, r, vx, vy) ==
    [Ball(Num(px), Num(py), Num(r)) EXCEPT !.vx = Num(vx), !.vy = Num(vy)]

WallBodies ==
    { body(px, py, r, vx, vy) :
        px \in {-10, 80, 400, 795}, py \in {-100, 75, 300, 590}, r \in Radii,
        vx \in {-40, 0, 1, 300}, vy \in {-20, 0, 30, 500} }

InitWalls ==
    /\ schedOff
    /\ state \in Arenas
    /\ \E b \in WallBodies : before = <<b>>
    /\ after = << >>
    /\ phase = "in"
    /\ dtLast = Zero

\* line 144: collideWalls(b)
ApplyCollideWalls ==
    /\ phase = "in"
    /\ after' = <<collideWalls(before[1])>>
    /\ phase' = "out"
    /\ UNCHANGED <<schedVars, state, before, dtLast>>

NextWalls == ApplyCollideWalls

SpecWalls == InitWalls /\ [][NextWalls]_vars

\* Displacements b - a whose length is an integer: coincident, touching,
\* overlapping and apart, along the axes and oblique.
PairDisp ==
    { <<0, 0>>, <<144, 0>>, <<0, -150>>, <<96, 72>>, <<-72, -96>>,
      <<180, 0>>, <<200, 0>>, <<-120, -160>> }

PairVelA == { <<0, 0>>, <<50, 0>>, <<30, -40>> }
PairVelB == { <<0, 0>>, <<-50, 0>>, <<40, 30>>, <<-30, 40>> }

InitPair ==
    /\ schedOff
    /\ state = [w |-> 800, h |-> 600]
    /\ \E ra \in Radii, rb \in Radii, d \in PairDisp,
          va \in PairVelA, vb \in PairVelB :
          before = << body(300, 300, ra, va[1], va[2]),
                      body(300 + d[1], 300 + d[2], rb, vb[1], vb[2]) >>
    /\ after = << >>
    /\ phase = "in"
    /\ dtLast = Zero

\* line 147: collideBalls(balls[i], balls[j])
ApplyCollideBalls ==
    /\ phase = "in"
    /\ after' = collideBalls(before[1], before[2])
    /\ phase' = "out"
    /\ UNCHANGED <<schedVars, state, before, dtLast>>

NextPair == ApplyCollideBalls

SpecPair == InitPair /\ [][NextPair]_vars

\* line 192: dt = Math.min(0.033, (now - last) / 1000), for frames 0 ms,
\* 1/120 s, 1/60 s and 33 ms or more apart
FrameDts == { Zero, <<1, 120>>, <<1, 60>>, <<33, 1000>> }

RestArenas == [w : {400, 800}, h : {300, 600}]

\* One ball with zero velocity resting exactly on the floor
\* (py + r = state.h), inside an arena larger than the ball.
InitRest ==
    /\ schedOff
    /\ state \in RestArenas
    /\ \E r \in Radii, px \in {100, 200, 300} :
          after = << body(px, state.h - r, r, 0, 0) >>
    /\ before = << >>
    /\ phase = "rest"
    /\ dtLast = Zero

\* lines 192-194: animate computes dt and calls step(dt); the first and the
\* second frame of the resting ball.
RestStep ==
    /\ phase \in {"rest", "once"}
    /\ \E dt \in FrameDts :
          /\ after' = step(after, dt)
          /\ dtLast' = dt
    /\ before' = after
    /\ phase' = IF phase = "rest" THEN "once" ELSE "twice"
    /\ UNCHANGED <<schedVars, state>>

NextRest == RestStep

SpecRest == InitRest /\ [][NextRest]_vars

-----------------------------------------------------------------------------
(* Properties of the event loop (Spec).                                    *)

\* C1: whatever spawns, clears and frames have run, the balls array never
\* holds more than MAX_BALLS balls.
PopulationBounded == Len(balls) <= MAX_BALLS

\* C1 case: the array is full after more spawns than the cap, the first ball
\* is gone and a frame has been drawn.
PopulationBoundedCase ==
    /\ pc = "idle"
    /\ Len(balls) = MAX_BALLS
    /\ nextTag > MAX_BALLS + 1
    /\ balls[1] > 1
    /\ seenByRender # << >>

\* bs holds the last Len(bs) tags handed out before nt, in spawn order
IsSuffixOfSpawns(bs, nt) ==
    \A k \in 1..Len(bs) : bs[k] = nt - Len(bs) + k - 1

\* C2: eviction is oldest-first: after every step of the page the array is a
\* contiguous suffix of the spawn sequence, in spawn order, and a spawn into a
\* full array leaves it full, dropping exactly its first (oldest) ball.
OldestFirstEviction ==
    [][ /\ IsSuffixOfSpawns(balls', nextTag')
        /\ ((Len(balls) = MAX_BALLS /\ nextTag' = nextTag + 1)
              => (balls' = Tail(balls) \o <<nextTag>>)) ]_vars

\* C2 case: a full array whose oldest survivor is not the first ball spawned,
\* the newest ball being the last one spawned.
OldestFirstEvictionCase ==
    /\ Len(balls) = MAX_BALLS
    /\ balls[1] = nextTag - MAX_BALLS
    /\ balls[1] > INITIAL_BALLS
    /\ ~dragStart

\* C3: while animate is running (before step, between step and render) no
\* spawn or clear changes the array: step iterates the array the frame
\* started with and render iterates what step iterated.
FrameIsAtomic ==
    [][ (pc \in {"step", "render"}) =>
          ( /\ balls' = balls
            /\ (pc = "step" => seenByStep' = balls)
            /\ (pc = "render" => seenByRender' = seenByStep) ) ]_vars

\* C3 case: a frame is between step and render over a full array while the
\* timer may still spawn.
FrameIsAtomicCase ==
    /\ pc = "render"
    /\ seenByStep = balls
    /\ Len(balls) = MAX_BALLS
    /\ nextTag <= MaxTag

OpRank(op) ==
    IF op.kind = "integrate" THEN 0 ELSE IF op.kind = "collideWalls" THEN 1 ELSE 2

\* C4: in every substep, for the n balls step() iterated: each ball is
\* integrated once, then each ball is resolved against the walls once, then
\* every pair i < j is resolved once, in ascending (i, j) order; nothing else
\* is called.
StepOrder ==
    LET n == Len(seenByStep)
        L == opLog
        P == 1..Len(L)
    IN  /\ \A p \in P :
              /\ L[p].kind \in {"integrate", "collideWalls", "collideBalls"}
              /\ L[p].s \in 0..(SUBSTEPS - 1)
              /\ L[p].i \in 0..(n - 1)
              /\ L[p].j \in 0..(n - 1)
              /\ L[p].kind = "collideBalls" => L[p].i < L[p].j
        /\ \A s \in 0..(SUBSTEPS - 1), i \in 0..(n - 1) :
              /\ Cardinality({p \in P : L[p].kind = "integrate"
                                        /\ L[p].s = s /\ L[p].i = i}) = 1
              /\ Cardinality({p \in P : L[p].kind = "collideWalls"
                                        /\ L[p].s = s /\ L[p].i = i}) = 1
        /\ \A s \in 0..(SUBSTEPS - 1), i \in 0..(n - 1), j \in 0..(n - 1) :
              i < j => Cardinality({p \in P : L[p].kind = "collideBalls"
                                     /\ L[p].s = s /\ L[p].i = i /\ L[p].j = j}) = 1
        /\ \A p \in P, q \in P :
              p < q =>
                /\ L[p].s <= L[q].s
                /\ L[p].s = L[q].s => OpRank(L[p]) <= OpRank(L[q])
                /\ (L[p].s = L[q].s /\ L[p].kind = "collideBalls"
                      /\ L[q].kind = "collideBalls")
                     => \/ L[p].i < L[q].i
                        \/ L[p].i = L[q].i /\ L[p].j < L[q].j

\* C4 case: step() has run over a full array.
StepOrderCase ==
    /\ pc = "render"
    /\ Len(seenByStep) = MAX_BALLS
    /\ Len(opLog) = SUBSTEPS * (2 * MAX_BALLS + (MAX_BALLS * (MAX_BALLS - 1)) \div 2)

-----------------------------------------------------------------------------
(* Properties of step() on a ball at rest (SpecRest).                      *)

AtRestOnFloor(b) ==
    /\ b.vx = Zero
    /\ b.vy = Zero
    /\ Add(b.py, b.r) = Num(state.h)

\* C5 as stated: a ball with zero velocity resting exactly on the floor has
\* zero velocity after a further step() call.
RestKeepsZeroVelocity ==
    (phase \in {"once", "twice"} /\ AtRestOnFloor(before[1]))
        => (after[1].vx = Zero /\ after[1].vy = Zero)

\* C5 as amended: the ball that rested on the floor with zero velocity has
\* zero horizontal velocity after its first step() call and after the next.
RestKeepsZeroVx ==
    phase \in {"rest", "once", "twice"} => after[1].vx = Zero

\* C5 case: the resting ball has been through a frame of positive dt, which
\* left it a vertical velocity, and through another.
RestKeepsZeroVxCase ==
    /\ phase = "twice"
    /\ before[1].vy # Zero
    /\ dtLast # Zero
    /\ after[1].vx = Zero
    /\ after[1].vy # Zero

-----------------------------------------------------------------------------
(* Properties of collideWalls (SpecWalls).                                 *)

InsideArena(b) ==
    /\ Le(b.r, b.px)
    /\ Le(b.px, Sub(Num(state.w), b.r))
    /\ Le(b.r, b.py)
    /\ Le(b.py, Sub(Num(state.h), b.r))

ArenaFits(b) ==
    /\ Le(Mul(Num(2), b.r), Num(state.w))
    /\ Le(Mul(Num(2), b.r), Num(state.h))

\* which walls the call resolves, from the ball it is given
HitsLeft(b) == Lt(Sub(b.px, b.r), Zero)
HitsRight(b) ==
    Gt(Add(IF HitsLeft(b) THEN b.r ELSE b.px, b.r), Num(state.w))
HitsTop(b) == Lt(Sub(b.py, b.r), Zero)
HitsBottom(b) ==
    Gt(Add(IF HitsTop(b) THEN b.r ELSE b.py, b.r), Num(state.h))

\* C6 as stated: after collideWalls the circle lies within the arena, for
\* every ball and every arena size.
WallsClampInside == phase = "out" => InsideArena(after[1])

\* C6 as amended: after collideWalls the circle lies within the arena,
\* whenever the arena is at least as wide and as high as the ball.
WallsClampInsideWhenFits ==
    (phase = "out" /\ ArenaFits(before[1])) => InsideArena(after[1])

\* C6 case: a ball beyond the right wall and the floor of an arena it fits in
\* has been resolved.
WallsClampInsideCase ==
    /\ phase = "out"
    /\ ArenaFits(before[1])
    /\ HitsRight(before[1])
    /\ HitsBottom(before[1])
    /\ InsideArena(after[1])

\* C9: for every wall the call resolves, the speed along that wall's normal
\* axis after the call is at most the speed before it.
WallBounceLosesSpeed ==
    phase = "out" =>
       /\ (HitsLeft(before[1]) \/ HitsRight(before[1]))
             => Le(Abs(after[1].vx), Abs(before[1].vx))
       /\ (HitsTop(before[1]) \/ HitsBottom(before[1]))
             => Le(Abs(after[1].vy), Abs(before[1].vy))

\* C9 case: two walls resolved in one call, on a moving ball: a corner, or
\* both side walls of an arena narrower than the ball.
WallBounceLosesSpeedCase ==
    /\ phase = "out"
    /\ before[1].vx # Zero
    /\ before[1].vy # Zero
    /\ HitsLeft(before[1])
    /\ HitsRight(before[1]) \/ HitsBottom(before[1])
    /\ Lt(Abs(after[1].vx), Abs(before[1].vx))

-----------------------------------------------------------------------------
(* Properties of collideBalls (SpecPair).                                  *)

Dist2(a, b) ==
    Add(Mul(Sub(b.px, a.px), Sub(b.px, a.px)),
        Mul(Sub(b.py, a.py), Sub(b.py, a.py)))

Radii2(a, b) == Mul(Add(a.r, b.r), Add(a.r, b.r))

Overlapping(a, b) == Dist2(a, b) # Zero /\ Le(Dist2(a, b), Radii2(a, b))

\* (velocity of vb relative to va) . (center of pb - center of pa): the sign
\* of the relative velocity along the normal pointing from pa to pb
ApproachAlong(va, vb, pa, pb) ==
    Add(Mul(Sub(vb.vx, va.vx), Sub(pb.px, pa.px)),
        Mul(Sub(vb.vy, va.vy), Sub(pb.py, pa.py)))

\* C7: with coincident centers, or with circles that do not overlap,
\* collideBalls returns and leaves both balls as they were.
NoContactNoEffect ==
    (phase = "out" /\ (Dist2(before[1], before[2]) = Zero
                       \/ Gt(Dist2(before[1], before[2]),
                             Radii2(before[1], before[2]))))
        => after = before

\* C7 case: the call has returned on two balls with the same center.
NoContactNoEffectCase ==
    /\ phase = "out"
    /\ Dist2(before[1], before[2]) = Zero
    /\ before[1].vx # before[2].vx
    /\ after = before

\* C8: for overlapping balls with distinct centers, after the call the center
\* distance is the sum of the radii, so not less than before, and the
\* velocity of b relative to a along the collision normal is >= 0.
PairSeparates ==
    (phase = "out" /\ Overlapping(before[1], before[2])) =>
       /\ Dist2(after[1], after[2]) = Radii2(before[1], before[2])
       /\ Ge(Dist2(after[1], after[2]), Dist2(before[1], before[2]))
       /\ Ge(ApproachAlong(after[1], after[2], before[1], before[2]), Zero)

\* C8 case: two overlapping balls of different mass that were approaching
\* have been resolved.
PairSeparatesCase ==
    /\ phase = "out"
    /\ Overlapping(before[1], before[2])
    /\ Lt(Dist2(before[1], before[2]), Radii2(before[1], before[2]))
    /\ before[1].m # before[2].m
    /\ Lt(ApproachAlong(before[1], before[2], before[1], before[2]), Zero)
    /\ Gt(ApproachAlong(after[1], after[2], before[1], before[2]), Zero)

\* C10: for overlapping balls whose relative velocity along the normal is
\* >= 0, the call moves the centers and leaves every other field, the
\* velocities among them, as it was.
SeparatingKeepsVelocity ==
    (phase = "out" /\ Overlapping(before[1], before[2])
       /\ Ge(ApproachAlong(before[1], before[2], before[1], before[2]), Zero))
    => \A k \in 1..2 :
          after[k] = [before[k] EXCEPT !.px = after[k].px, !.py = after[k].py]

\* C10 case: overlapping balls sliding past each other, with relative
\* velocity exactly 0 along the normal and not 0 across it, were moved apart.
SeparatingKeepsVelocityCase ==
    /\ phase = "out"
    /\ Lt(Dist2(before[1], before[2]), Radii2(before[1], before[2]))
    /\ Dist2(before[1], before[2]) # Zero
    /\ ApproachAlong(before[1], before[2], before[1], before[2]) = Zero
    /\ before[1].vx # before[2].vx
    /\ after[1].px # before[1].px
    /\ after[1].vx = before[1].vx

=============================================================================
